---- MODULE Spec2Model ----
(***************************************************************************)
(* Timers of nautilus_trader/common/timer.pyx: the shared Timer state, the *)
(* deterministic TestTimer and the thread-backed LiveTimer.                *)
(*                                                                         *)
(* Time is counted in whole ticks (one tick = half a second in the         *)
(* scenarios: interval 1s = 2 ticks, stop_time T0+2.5s = 5 ticks).         *)
(***************************************************************************)
EXTENDS Integers, Sequences, FiniteSets, TLC

VARIABLES
    tt,            \* the TestTimer: its Timer fields
    tt_uuid,       \* TestTimer._uuid_factory: number of ids drawn so far
    tt_result,     \* the value returned by the last TestTimer call (list of TimeEvent)
    tt_produced,   \* every TimeEvent the TestTimer has returned, in order
    tt_last,       \* the last TestTimer call: operation, to_time, expired before it
    tt_split,      \* the last two calls were advance(T1), advance(T2), T1 <= T2, both non-empty
    lt,            \* the LiveTimer: its Timer fields
    now,           \* the wall clock
    threads,       \* every TimerThread the LiveTimer started; _internal is the last
    lt_events,     \* every TimeEvent popped by the LiveTimer's callback, in order
    lt_uuid,       \* the callback owner's id generator: number of ids drawn
    lt_cancelled,  \* LiveTimer.cancel() has returned at least once
    lt_stale,      \* callback invocations after cancel() returned
    lt_manual,     \* repeat() was called outside the callback
    ctor,          \* the last constructor call: its arguments and its outcome
    cmp,           \* two TimeEventHandlers and the result of the last comparison made on them
    clock,         \* several TestTimers advanced together, and their merged output
    api,           \* the last direct call of a Timer method on the TestTimer, and the call before it
    dispatch,      \* the handlers waiting to be handled, and the callback invocations made
    loop,          \* one call of TestTimer.advance, taken one loop turn at a time
    client,        \* the CCXTDataClient: connection, subscription maps and asyncio tasks
    feed           \* the watch streams of the CCXTDataClient: what they remember and emit

tt_vars == <<tt, tt_uuid, tt_result, tt_produced, tt_last, tt_split>>
lt_vars == <<lt, now, threads, lt_events, lt_uuid, lt_cancelled, lt_stale, lt_manual>>
ext_vars == <<loop, client, feed>>
aux_vars == <<ctor, cmp, clock, api, dispatch, ext_vars>>
vars == <<tt_vars, lt_vars, aux_vars>>

\* ---------------------------------------------------------------- bounds
MaxTime == 10
MaxInterval == 3
MaxStart == 1
MaxThreads == 2
MaxWall == 5
MaxId == 2
MaxStamp == 2
MaxClock == 5
MaxPrice == 2
MaxSize == 2
MaxTasks == 2

\* stop_time=None
NoStop == -1

Names == {"", "timer"}
Intervals == (-1)..MaxInterval
StartTimes == 0..MaxStart
Times == 0..MaxTime
StopTimes == {NoStop} \cup Times

\* ---------------------------------------------------------------- TimeEvent
TimeEvent(name, event_id, event_timestamp) ==
    [name |-> name, id |-> event_id, timestamp |-> event_timestamp]

Timestamps(events) == [i \in DOMAIN events |-> events[i].timestamp]

\* faulty variant: two events are equal when name and id agree
TimeEvent_eq_by_name_and_id(self, other) == self.name = other.name /\ self.id = other.id

\* TimeEvent.__eq__ and __ne__
TimeEvent_eq(self, other) == self.name = other.name
TimeEvent_ne(self, other) == self.name # other.name

\* ---------------------------------------------------------------- TimeEventHandler
TimeEventHandler(event, handler) == [event |-> event, handler |-> handler]

\* faulty variant: <= written as <
TimeEventHandler_le_strict(self, other) == self.event.timestamp < other.event.timestamp

\* faulty variant: < answers for the later handler
TimeEventHandler_lt_reversed(self, other) == self.event.timestamp > other.event.timestamp

\* TimeEventHandler.__eq__, __ne__, __lt__, __le__, __gt__, __ge__
TimeEventHandler_eq(self, other) == self.event.timestamp = other.event.timestamp
TimeEventHandler_ne(self, other) == self.event.timestamp # other.event.timestamp
TimeEventHandler_lt(self, other) == self.event.timestamp < other.event.timestamp
TimeEventHandler_le(self, other) == self.event.timestamp <= other.event.timestamp
TimeEventHandler_gt(self, other) == self.event.timestamp > other.event.timestamp
TimeEventHandler_ge(self, other) == self.event.timestamp >= other.event.timestamp

\* ---------------------------------------------------------------- Condition
\* The precondition helpers: each raises, and the caller is abandoned, unless it holds.
Condition_valid_string(argument) == argument # ""
Condition_positive(value) == value > 0
Condition_true(predicate) == predicate

\* ---------------------------------------------------------------- Timer
\* faulty variant: the stop_time is only required not to precede the start_time
Timer_valid_stop_after_start(name, interval, start_time, stop_time) ==
    /\ Condition_valid_string(name)
    /\ Condition_positive(interval)
    /\ (stop_time # NoStop => Condition_true(start_time <= stop_time))

\* faulty variant: the interval is only required not to be negative
Timer_valid_interval_not_negative(name, interval, start_time, stop_time) ==
    /\ Condition_valid_string(name)
    /\ interval >= 0
    /\ (stop_time # NoStop => Condition_true(start_time + interval <= stop_time))

\* The Condition checks of Timer.__init__: construction raises unless they hold.
Timer_valid(name, interval, start_time, stop_time) ==
    /\ Condition_valid_string(name)
    /\ Condition_positive(interval)
    /\ (stop_time # NoStop => Condition_true(start_time + interval <= stop_time))

\* faulty variant: the first fire point is the start time itself
Timer_init_firing_at_start(name, interval, start_time, stop_time) ==
    [name |-> name,
     interval |-> interval,
     start_time |-> start_time,
     next_time |-> start_time,
     stop_time |-> stop_time,
     expired |-> FALSE]

Timer_init(name, interval, start_time, stop_time) ==
    [name |-> name,
     interval |-> interval,
     start_time |-> start_time,
     next_time |-> start_time + interval,
     stop_time |-> stop_time,
     expired |-> FALSE]

\* faulty variant: the event is stamped with the fire point after the current one
pop_event_stamped_ahead(t, event_id) == TimeEvent(t.name, event_id, t.next_time + t.interval)

pop_event(t, event_id) == TimeEvent(t.name, event_id, t.next_time)

\* faulty variant: the next fire point is counted from the time given, not from the last one
iterate_next_time_from_now(t, now_arg) ==
    [t EXCEPT !.next_time = now_arg + t.interval,
              !.expired = IF t.stop_time # NoStop /\ now_arg >= t.stop_time
                          THEN TRUE ELSE t.expired]

\* faulty variant: expired is assigned the outcome of the stop_time test
iterate_next_time_assigning_expired(t, now_arg) ==
    [t EXCEPT !.next_time = t.next_time + t.interval,
              !.expired = (t.stop_time # NoStop /\ now_arg >= t.stop_time)]

\* faulty variant: a time equal to the stop_time does not expire the timer
iterate_next_time_strictly_after(t, now_arg) ==
    [t EXCEPT !.next_time = t.next_time + t.interval,
              !.expired = IF t.stop_time # NoStop /\ now_arg > t.stop_time
                          THEN TRUE ELSE t.expired]

iterate_next_time(t, now_arg) ==
    [t EXCEPT !.next_time = t.next_time + t.interval,
              !.expired = IF t.stop_time # NoStop /\ now_arg >= t.stop_time
                          THEN TRUE ELSE t.expired]

\* UUIDFactory.generate(): a fresh id per draw
generate(factory) == factory + 1

\* ---------------------------------------------------------------- TestTimer
\* faulty variant: the loop does not look at the expired flag
advance_continue_ignoring_expired(t, to_time) == to_time >= t.next_time

\* faulty variant: cancel also moves the timer past its pending fire point
TestTimer_cancel_skipping(t) ==
    [t EXCEPT !.expired = TRUE, !.next_time = t.next_time + t.interval]

\* faulty variant: a fire point equal to to_time is not due yet
advance_continue_strictly_after(t, to_time) == ~t.expired /\ to_time > t.next_time

\* faulty variant: a fire point is due one interval before its time
advance_continue_one_interval_early(t, to_time) ==
    ~t.expired /\ to_time + t.interval >= t.next_time

\* the loop condition of TestTimer.advance
advance_continue(t, to_time) == ~t.expired /\ to_time >= t.next_time

\* faulty variant: the state is advanced twice for one popped event
advance_body_iterating_twice(t, factory, to_time) ==
    [event |-> pop_event(t, generate(factory)),
     timer |-> iterate_next_time(iterate_next_time(t, t.next_time), t.next_time),
     factory |-> generate(factory)]

\* faulty variant: the expiry check is given the time advanced to, not the fire point
advance_body_now_is_to_time(t, factory, to_time) ==
    [event |-> pop_event(t, generate(factory)),
     timer |-> iterate_next_time(t, to_time),
     factory |-> generate(factory)]

\* faulty variant: the id generator is read but not moved on
advance_body_reusing_id(t, factory, to_time) ==
    [event |-> pop_event(t, generate(factory)),
     timer |-> iterate_next_time(t, t.next_time),
     factory |-> factory]

\* the loop body of TestTimer.advance: pop one event, then advance the state
advance_body(t, factory, to_time) ==
    [event |-> pop_event(t, generate(factory)),
     timer |-> iterate_next_time(t, t.next_time),
     factory |-> generate(factory)]

RECURSIVE advance(_, _, _)
advance(t, factory, to_time) ==
    IF advance_continue(t, to_time)
    THEN LET b == advance_body(t, factory, to_time)
             r == advance(b.timer, b.factory, to_time)
         IN  [timer |-> r.timer, factory |-> r.factory, events |-> <<b.event>> \o r.events]
    ELSE [timer |-> t, factory |-> factory, events |-> <<>>]

\* faulty variant: the event is returned and the state is left to be advanced later
pop_next_event_deferring_iterate(t, factory) ==
    [event |-> pop_event(t, generate(factory)),
     timer |-> t,
     factory |-> generate(factory)]

\* faulty variant: the state is advanced before the event is popped
pop_next_event_iterating_first(t, factory) ==
    [event |-> pop_event(iterate_next_time(t, t.next_time), generate(factory)),
     timer |-> iterate_next_time(t, t.next_time),
     factory |-> generate(factory)]

pop_next_event(t, factory) ==
    [event |-> pop_event(t, generate(factory)),
     timer |-> iterate_next_time(t, t.next_time),
     factory |-> generate(factory)]

TestTimer_cancel(t) == [t EXCEPT !.expired = TRUE]

\* ---------------------------------------------------------------- TestTimer: state machine
NoCall == [op |-> "init", to_time |-> 0, was_expired |-> FALSE]

TestInit ==
    /\ \E name \in Names, interval \in Intervals, start_time \in StartTimes, stop_time \in StopTimes :
          /\ Timer_valid(name, interval, start_time, stop_time)
          /\ tt = Timer_init(name, interval, start_time, stop_time)
    /\ tt_uuid = 0
    /\ tt_result = <<>>
    /\ tt_produced = <<>>
    /\ tt_last = NoCall
    /\ tt_split = FALSE

Advance ==
    \E to_time \in Times :
        LET r == advance(tt, tt_uuid, to_time) IN
        /\ tt' = r.timer
        /\ tt_uuid' = r.factory
        /\ tt_result' = r.events
        /\ tt_produced' = tt_produced \o r.events
        /\ tt_last' = [op |-> "advance", to_time |-> to_time, was_expired |-> tt.expired]
        /\ tt_split' = /\ tt_last.op = "advance"
                       /\ tt_last.to_time <= to_time
                       /\ tt_result # <<>>
                       /\ r.events # <<>>

PopNextEvent ==
    /\ tt.next_time <= MaxTime
    /\ LET r == pop_next_event(tt, tt_uuid) IN
        /\ tt' = r.timer
        /\ tt_uuid' = r.factory
        /\ tt_result' = <<r.event>>
        /\ tt_produced' = Append(tt_produced, r.event)
        /\ tt_last' = [op |-> "pop_next_event", to_time |-> 0, was_expired |-> tt.expired]
        /\ tt_split' = FALSE

Cancel ==
    /\ tt' = TestTimer_cancel(tt)
    /\ tt_result' = <<>>
    /\ tt_last' = [op |-> "cancel", to_time |-> 0, was_expired |-> tt.expired]
    /\ tt_split' = FALSE
    /\ UNCHANGED <<tt_uuid, tt_produced>>

\* ---------------------------------------------------------------- LiveTimer
\* faulty variant: a remaining duration below zero is waited for as if it were positive
start_timer_waiting_magnitude(t, now_arg, wall, after_cancel) ==
    [due |-> wall + (IF t.next_time >= now_arg THEN t.next_time - now_arg
                                                ELSE now_arg - t.next_time),
     phase |-> "wait",
     finished |-> FALSE,
     after_cancel |-> after_cancel,
     calls |-> 0]

\* threading.Timer(interval=next_time - now, function=callback, args=[self]).start():
\* the thread waits until `due` unless its finished flag is set first.
\* after_cancel records that the wait was armed after cancel() had returned,
\* calls how many times the thread has called its function.
start_timer(t, now_arg, wall, after_cancel) ==
    [due |-> wall + (t.next_time - now_arg),
     phase |-> "wait",
     finished |-> FALSE,
     after_cancel |-> after_cancel,
     calls |-> 0]

\* faulty variant: the thread waits again after its function has returned
TimerThread_after_call_periodic(th) ==
    [th EXCEPT !.phase = "wait", !.due = @ + 1, !.calls = @ + 1]

\* threading.Timer.run after the function has returned: finished.set(), and the
\* thread ends
TimerThread_after_call(th) ==
    [th EXCEPT !.phase = "end", !.finished = TRUE, !.calls = @ + 1]

\* Thread objects that have ended and are no longer referenced are dropped.
Running(ths) == SelectSeq(ths, LAMBDA th : th.phase # "end")

\* LiveTimer.repeat: _internal becomes a newly started thread
repeat(t, ths, now_arg, wall, after_cancel) ==
    Append(Running(ths), start_timer(t, now_arg, wall, after_cancel))

\* LiveTimer.cancel: threading.Timer.cancel() on _internal sets its finished flag
LiveTimer_cancel(ths) ==
    [ths EXCEPT ![Len(ths)] = [@ EXCEPT !.finished = TRUE]]

\* ---------------------------------------------------------------- LiveTimer: state machine
InitNows == 0..(MaxStart + 1)
LiveStopTimes == {NoStop} \cup (0..MaxWall)

LiveInit ==
    /\ \E name \in Names, interval \in Intervals, start_time \in StartTimes,
          stop_time \in LiveStopTimes, now0 \in InitNows :
          /\ Timer_valid(name, interval, start_time, stop_time)
          /\ lt = Timer_init(name, interval, start_time, stop_time)
          /\ now = now0
          /\ threads = <<start_timer(Timer_init(name, interval, start_time, stop_time),
                                      now0, now0, FALSE)>>
    /\ lt_events = <<>>
    /\ lt_uuid = 0
    /\ lt_cancelled = FALSE
    /\ lt_stale = 0
    /\ lt_manual = FALSE

\* The wall clock moves on.
Tick ==
    /\ now < MaxWall
    /\ now' = now + 1
    /\ UNCHANGED <<lt, threads, lt_events, lt_uuid, lt_cancelled, lt_stale, lt_manual>>

\* threading.Timer.run, first half: finished.wait(interval) returns when the
\* interval has elapsed or the flag is set; the function is called only if the
\* flag is not set at that moment.
TimerThread_wake(i) ==
    /\ threads[i].phase = "wait"
    /\ threads[i].finished \/ now >= threads[i].due
    /\ threads' = [threads EXCEPT ![i] =
                      [@ EXCEPT !.phase = IF @ = "wait" /\ threads[i].finished
                                          THEN "end" ELSE "call"]]
    /\ UNCHANGED <<lt, now, lt_events, lt_uuid, lt_cancelled, lt_stale, lt_manual>>

\* threading.Timer.run, second half: callback(timer), then finished.set().
\* The callback is the owner's: pop_event, iterate_next_time(now), and
\* repeat(now) if the timer is not expired.
TimerThread_call(i) ==
    /\ threads[i].phase = "call"
    /\ LET event == pop_event(lt, generate(lt_uuid))
           t1 == iterate_next_time(lt, now)
           ended == [threads EXCEPT ![i] = TimerThread_after_call(@)]
       IN  /\ lt' = t1
           /\ lt_uuid' = generate(lt_uuid)
           /\ lt_events' = Append(lt_events, event)
           /\ threads' = IF t1.expired THEN ended
                         ELSE repeat(t1, ended, now, now, lt_cancelled)
    /\ lt_stale' = IF lt_cancelled THEN lt_stale + 1 ELSE lt_stale
    /\ UNCHANGED <<now, lt_cancelled, lt_manual>>

LiveCancel ==
    /\ threads' = LiveTimer_cancel(threads)
    /\ lt_cancelled' = TRUE
    /\ UNCHANGED <<lt, now, lt_events, lt_uuid, lt_stale, lt_manual>>

\* repeat(now) called by the owner outside the callback
LiveRepeat ==
    /\ Len(threads) < MaxThreads
    /\ threads' = repeat(lt, threads, now, now, lt_cancelled)
    /\ lt_manual' = TRUE
    /\ UNCHANGED <<lt, now, lt_events, lt_uuid, lt_cancelled, lt_stale>>

\* ---------------------------------------------------------------- specifications
\* no LiveTimer has been constructed
LiveIdle ==
    /\ lt = Timer_init("timer", 1, 0, NoStop)
    /\ now = 0
    /\ threads = <<>>
    /\ lt_events = <<>>
    /\ lt_uuid = 0
    /\ lt_cancelled = FALSE
    /\ lt_stale = 0
    /\ lt_manual = FALSE

\* no TestTimer call has been made
TestIdle ==
    /\ tt = Timer_init("timer", 1, 0, NoStop)
    /\ tt_uuid = 0
    /\ tt_result = <<>>
    /\ tt_produced = <<>>
    /\ tt_last = NoCall
    /\ tt_split = FALSE

\* no constructor call, no comparison and no clock are under observation
NoCtor == [kind |-> "none", name |-> "", interval |-> 0, start_time |-> 0,
           stop_time |-> NoStop, now |-> 0, outcome |-> "none"]
NoResult == [on |-> "none", op |-> "none", result |-> FALSE]
NoCmp == [h1 |-> <<>>, h2 |-> <<>>, out |-> NoResult]
NoClock == [timers |-> <<>>, time |-> 0, out |-> <<>>]
NoApi == [op |-> "none", arg |-> 0, out |-> <<>>, was_expired |-> FALSE, prev |-> "none"]
NoDispatch == [pending |-> <<>>, called |-> 0, failed |-> FALSE]
NoLoop == [pc |-> "idle", timer |-> Timer_init("timer", 1, 0, NoStop), to_time |-> 0,
           next0 |-> 0, turns |-> 0]
NoClient == [is_connected |-> FALSE]
NoFeed == [quotes |-> <<>>, bars |-> <<>>, trades |-> <<>>]

ExtIdle ==
    /\ loop = NoLoop
    /\ client = NoClient
    /\ feed = NoFeed

AuxIdle ==
    /\ ctor = NoCtor
    /\ cmp = NoCmp
    /\ clock = NoClock
    /\ api = NoApi
    /\ dispatch = NoDispatch
    /\ ExtIdle

Init == TestInit /\ LiveIdle /\ AuxIdle

Next ==
    \/ Advance /\ UNCHANGED <<lt_vars, aux_vars>>
    \/ PopNextEvent /\ UNCHANGED <<lt_vars, aux_vars>>
    \/ Cancel /\ UNCHANGED <<lt_vars, aux_vars>>

\* the TestTimer alone
Spec == Init /\ [][Next]_vars

InitLive == LiveInit /\ TestIdle /\ AuxIdle

NextLive ==
    \/ Tick /\ UNCHANGED <<tt_vars, aux_vars>>
    \/ \E i \in DOMAIN threads : TimerThread_wake(i) /\ UNCHANGED <<tt_vars, aux_vars>>
    \/ \E i \in DOMAIN threads : TimerThread_call(i) /\ UNCHANGED <<tt_vars, aux_vars>>
    \/ LiveCancel /\ UNCHANGED <<tt_vars, aux_vars>>
    \/ LiveRepeat /\ UNCHANGED <<tt_vars, aux_vars>>

\* the LiveTimer, its threads and the wall clock
SpecLive == InitLive /\ [][NextLive]_vars

\* a timer of either realization: a TestTimer (no thread exists) or a LiveTimer
InitAny ==
    \/ TestInit /\ LiveIdle /\ AuxIdle
    \/ LiveInit /\ TestIdle /\ AuxIdle

NextAny ==
    \/ threads = <<>> /\ Advance /\ UNCHANGED <<lt_vars, aux_vars>>
    \/ threads = <<>> /\ PopNextEvent /\ UNCHANGED <<lt_vars, aux_vars>>
    \/ threads = <<>> /\ Cancel /\ UNCHANGED <<lt_vars, aux_vars>>
    \/ Tick /\ threads # <<>> /\ UNCHANGED <<tt_vars, aux_vars>>
    \/ \E i \in DOMAIN threads : TimerThread_wake(i) /\ UNCHANGED <<tt_vars, aux_vars>>
    \/ \E i \in DOMAIN threads : TimerThread_call(i) /\ UNCHANGED <<tt_vars, aux_vars>>
    \/ threads # <<>> /\ LiveCancel /\ UNCHANGED <<tt_vars, aux_vars>>
    \/ threads # <<>> /\ LiveRepeat /\ UNCHANGED <<tt_vars, aux_vars>>

SpecAny == InitAny /\ [][NextAny]_vars

\* ---------------------------------------------------------------- Timer methods called directly
ApiCall(op, arg, out) ==
    [op |-> op, arg |-> arg, out |-> out, was_expired |-> tt.expired, prev |-> api.op]

\* timer.pop_event(event_id): the event is returned; no field is assigned
PopEvent ==
    /\ \E event_id \in 1..MaxId :
          api' = ApiCall("pop_event", event_id, <<pop_event(tt, event_id)>>)
    /\ tt' = tt
    /\ UNCHANGED <<tt_uuid, tt_result, tt_produced, tt_last, tt_split>>
    /\ UNCHANGED <<lt_vars, ctor, cmp, clock, dispatch, ext_vars>>

\* timer.iterate_next_time(now)
IterateNextTime ==
    /\ tt.next_time <= MaxTime
    /\ \E now_arg \in Times :
          /\ tt' = iterate_next_time(tt, now_arg)
          /\ api' = ApiCall("iterate_next_time", now_arg, <<>>)
    /\ UNCHANGED <<tt_uuid, tt_result, tt_produced, tt_last, tt_split>>
    /\ UNCHANGED <<lt_vars, ctor, cmp, clock, dispatch, ext_vars>>

InitTimer == TestInit /\ LiveIdle /\ AuxIdle

NextTimer ==
    \/ PopEvent
    \/ IterateNextTime

\* pop_event and iterate_next_time called in any order on one timer
SpecTimer == InitTimer /\ [][NextTimer]_vars

\* ---------------------------------------------------------------- the loop of advance
\* TestTimer(...): the timer whose advance is followed turn by turn
InitLoop ==
    /\ TestIdle /\ LiveIdle
    /\ ctor = NoCtor /\ cmp = NoCmp /\ clock = NoClock /\ api = NoApi /\ dispatch = NoDispatch
    /\ client = NoClient /\ feed = NoFeed
    /\ \E name \in Names, interval \in Intervals, start_time \in StartTimes, stop_time \in StopTimes :
          /\ Timer_valid(name, interval, start_time, stop_time)
          /\ loop = [NoLoop EXCEPT !.timer = Timer_init(name, interval, start_time, stop_time)]

\* advance(to_time) is entered
LoopCall ==
    /\ loop.pc \in {"idle", "done"}
    /\ \E to_time \in Times :
          loop' = [loop EXCEPT !.pc = "test", !.to_time = to_time,
                               !.next0 = loop.timer.next_time, !.turns = 0]
    /\ UNCHANGED <<tt_vars, lt_vars, ctor, cmp, clock, api, dispatch, client, feed>>

\* the loop condition holds: one turn of the body. No call is followed for more
\* than MaxTime + 1 turns.
LoopTurn ==
    /\ loop.pc = "test"
    /\ advance_continue(loop.timer, loop.to_time)
    /\ loop.turns <= MaxTime
    /\ loop' = [loop EXCEPT !.timer = advance_body(loop.timer, 0, loop.to_time).timer,
                            !.turns = @ + 1]
    /\ UNCHANGED <<tt_vars, lt_vars, ctor, cmp, clock, api, dispatch, client, feed>>

\* the loop condition fails: advance returns
LoopExit ==
    /\ loop.pc = "test"
    /\ ~advance_continue(loop.timer, loop.to_time)
    /\ loop' = [loop EXCEPT !.pc = "done"]
    /\ UNCHANGED <<tt_vars, lt_vars, ctor, cmp, clock, api, dispatch, client, feed>>

\* cancel() between two calls
LoopCancel ==
    /\ loop.pc \in {"idle", "done"}
    /\ loop' = [loop EXCEPT !.timer = TestTimer_cancel(loop.timer)]
    /\ UNCHANGED <<tt_vars, lt_vars, ctor, cmp, clock, api, dispatch, client, feed>>

NextLoop ==
    \/ LoopCall
    \/ LoopTurn
    \/ LoopExit
    \/ LoopCancel

\* calls of advance followed turn by turn; a call that was entered keeps running
SpecLoop ==
    /\ InitLoop
    /\ [][NextLoop]_vars
    /\ WF_vars(LoopTurn)
    /\ WF_vars(LoopExit)

\* ---------------------------------------------------------------- CCXTDataClient: streams
\* None, for a price level, a tick, a bar and a timestamp
NoLevel == <<>>
NoTick == <<>>
NoBar == <<>>
NoTimestamp == 0

\* One side of an order book: a list of [price, size] levels, best first
Levels == {<<p, sz>> : p \in 1..MaxPrice, sz \in 1..MaxSize}
BookSides == {<<>>} \cup {<<l>> : l \in Levels}
OrderBooks == [bids : BookSides, asks : BookSides, timestamp : {NoTimestamp} \cup (1..MaxStamp)]

\* The arguments of _on_quote_tick, which builds and hands on the QuoteTick
QuoteTick(best_bid, best_ask, best_bid_size, best_ask_size, timestamp) ==
    [bid |-> best_bid, ask |-> best_ask, bid_size |-> best_bid_size,
     ask_size |-> best_ask_size, timestamp |-> timestamp]

\* faulty variant: generate_tick is not cleared at the start of a turn
watch_quotes_keeping_generate_tick(q, order_book, milliseconds) ==
    LET bids == order_book.bids
        asks == order_book.asks
        seen == [q EXCEPT !.got = order_book, !.out = NoTick,
                          !.prev = IF q.out # NoTick THEN q.out ELSE q.prev]
    IN  IF bids = <<>> \/ asks = <<>> THEN seen
        ELSE LET best_bid == bids[1]
                 best_ask == asks[1]
                 bid_changed == q.last_best_bid = NoLevel \/ best_bid # q.last_best_bid
                 ask_changed == q.last_best_ask = NoLevel \/ best_ask # q.last_best_ask
                 generate_tick == q.generate_tick \/ bid_changed \/ ask_changed
                 timestamp == IF order_book.timestamp = NoTimestamp
                              THEN milliseconds ELSE order_book.timestamp
             IN  [seen EXCEPT
                    !.last_best_bid = IF bid_changed THEN best_bid ELSE @,
                    !.last_best_ask = IF ask_changed THEN best_ask ELSE @,
                    !.generate_tick = generate_tick,
                    !.out = IF generate_tick
                            THEN QuoteTick(best_bid[1], best_ask[1], best_bid[2], best_ask[2],
                                           timestamp)
                            ELSE NoTick]

\* One turn of the loop of _watch_quotes on the order book received. got is the
\* order book of the turn, out the tick the turn emitted, prev the tick emitted
\* last before the turn.
watch_quotes(q, order_book, milliseconds) ==
    LET bids == order_book.bids
        asks == order_book.asks
        seen == [q EXCEPT !.got = order_book, !.out = NoTick,
                          !.prev = IF q.out # NoTick THEN q.out ELSE q.prev]
    IN  IF bids = <<>> \/ asks = <<>> THEN seen
        ELSE LET best_bid == bids[1]
                 best_ask == asks[1]
                 bid_changed == q.last_best_bid = NoLevel \/ best_bid # q.last_best_bid
                 ask_changed == q.last_best_ask = NoLevel \/ best_ask # q.last_best_ask
                 generate_tick == bid_changed \/ ask_changed
                 timestamp == IF order_book.timestamp = NoTimestamp
                              THEN milliseconds ELSE order_book.timestamp
             IN  [seen EXCEPT
                    !.last_best_bid = IF bid_changed THEN best_bid ELSE @,
                    !.last_best_ask = IF ask_changed THEN best_ask ELSE @,
                    !.generate_tick = generate_tick,
                    !.out = IF generate_tick
                            THEN QuoteTick(best_bid[1], best_ask[1], best_bid[2], best_ask[2],
                                           timestamp)
                            ELSE NoTick]

\* A bar as received: [timestamp, open, high, low, close, volume]; one price stands
\* for the four
Bars == {<<ts, p>> : ts \in 1..MaxStamp + 1, p \in 1..MaxPrice}

\* faulty variant: the last-seen timestamp is not moved on when a bar is emitted
watch_ohlcv_keeping_last_timestamp(b, bar) ==
    LET this_timestamp == bar[1]
        seen == [b EXCEPT !.got = bar, !.out = NoBar, !.seen = b.last_timestamp,
                          !.prev = IF b.out # NoBar THEN b.out ELSE b.prev]
    IN  IF b.last_timestamp = 0
        THEN [seen EXCEPT !.last_timestamp = this_timestamp]
        ELSE IF this_timestamp # b.last_timestamp
             THEN [seen EXCEPT !.out = bar]
             ELSE seen

\* One turn of the loop of _watch_ohlcv on the bar received. seen is
\* last_timestamp as the turn found it, out the bar the turn emitted, prev the
\* bar emitted last before the turn.
watch_ohlcv(b, bar) ==
    LET this_timestamp == bar[1]
        seen == [b EXCEPT !.got = bar, !.out = NoBar, !.seen = b.last_timestamp,
                          !.prev = IF b.out # NoBar THEN b.out ELSE b.prev]
    IN  IF b.last_timestamp = 0
        THEN [seen EXCEPT !.last_timestamp = this_timestamp]
        ELSE IF this_timestamp # b.last_timestamp
             THEN [seen EXCEPT !.last_timestamp = this_timestamp, !.out = bar]
             ELSE seen

\* The OrderSide enum, and the strings a trade reports
OrderSide_BUY == "BUY"
OrderSide_SELL == "SELL"
ReportedSides == {"buy", "sell"}
LiquiditySides == {"taker", "maker"}

\* The side _on_trade_tick gives the TradeTick. The second test compares the
\* reported string with the enum member.
on_trade_tick_side(order_side, liquidity_side) ==
    LET side == IF order_side = "buy" THEN OrderSide_BUY ELSE OrderSide_SELL
    IN  IF liquidity_side = "maker"
        THEN (IF order_side = OrderSide_SELL THEN OrderSide_BUY ELSE OrderSide_BUY)
        ELSE side

NoQuotes == [last_best_bid |-> NoLevel, last_best_ask |-> NoLevel, generate_tick |-> FALSE,
             got |-> <<>>, out |-> NoTick, prev |-> NoTick]
NoBars == [last_timestamp |-> 0, seen |-> 0, got |-> NoBar, out |-> NoBar, prev |-> NoBar,
           turns |-> 0]
NoTrades == [order_side |-> "", liquidity_side |-> "", side |-> ""]

InitStreams ==
    /\ TestIdle /\ LiveIdle
    /\ ctor = NoCtor /\ cmp = NoCmp /\ clock = NoClock /\ api = NoApi /\ dispatch = NoDispatch
    /\ loop = NoLoop /\ client = NoClient
    /\ feed = [quotes |-> NoQuotes, bars |-> NoBars, trades |-> NoTrades]

\* `await self._client.watch_order_book(...)` returns an order book, or raises
\* a CCXTError and the loop goes on to the next turn
WatchQuotes ==
    /\ \/ \E order_book \in OrderBooks, milliseconds \in 1..MaxStamp :
             feed' = [feed EXCEPT !.quotes = watch_quotes(@, order_book, milliseconds)]
       \/ feed' = [feed EXCEPT !.quotes = [@ EXCEPT !.got = <<>>, !.out = NoTick,
                      !.prev = IF feed.quotes.out # NoTick THEN feed.quotes.out ELSE @]]
    /\ UNCHANGED <<tt_vars, lt_vars, ctor, cmp, clock, api, dispatch, loop, client>>

\* `await self._client.watch_ohlcv(...)` returns the last closed bar
WatchOhlcv ==
    /\ \E bar \in Bars :
          feed' = [feed EXCEPT !.bars = [watch_ohlcv(@, bar) EXCEPT
                                            !.turns = IF @ < 2 THEN @ + 1 ELSE @]]
    /\ UNCHANGED <<tt_vars, lt_vars, ctor, cmp, clock, api, dispatch, loop, client>>

\* _on_trade_tick for the last trade received
OnTradeTick ==
    /\ \E order_side \in ReportedSides, liquidity_side \in LiquiditySides :
          feed' = [feed EXCEPT !.trades = [order_side |-> order_side,
                                            liquidity_side |-> liquidity_side,
                                            side |-> on_trade_tick_side(order_side, liquidity_side)]]
    /\ UNCHANGED <<tt_vars, lt_vars, ctor, cmp, clock, api, dispatch, loop, client>>

NextQuotes ==
    \/ WatchQuotes

\* the quote stream of one symbol, fed by the exchange
SpecQuotes == InitStreams /\ [][NextQuotes]_vars

NextStreams ==
    \/ WatchOhlcv
    \/ OnTradeTick

\* the bar stream of one bar type and the trade stream of one symbol
SpecStreams == InitStreams /\ [][NextStreams]_vars

\* ---------------------------------------------------------------- CCXTDataClient
Symbols == {"BTC/USDT"}
BarTypes == {"BTC/USDT-1-MINUTE-LAST", "BTC/USDT-1-MINUTE-BID"}
Kinds == {"quote_ticks", "trade_ticks", "bars"}
Keys(kind) == IF kind = "bars" THEN BarTypes ELSE Symbols

\* bar_type.spec.price_type
price_type(bar_type) == IF bar_type = "BTC/USDT-1-MINUTE-LAST" THEN "LAST" ELSE "BID"

\* {}, a dict with no key
EmptyMap == [k \in {} |-> 0]

\* None, for _update_instruments_task
NoTask == 0

\* loop.create_task(coro): the task list with one more pending task
create_task(tasks, kind, key) == Append(tasks, [kind |-> kind, key |-> key, status |-> "pending"])

\* task.cancel(): a task that has not finished is cancelled
cancel(tasks, id) ==
    [tasks EXCEPT ![id] = IF @.status = "pending" THEN [@ EXCEPT !.status = "cancelled"] ELSE @]

RECURSIVE cancel_all(_, _)
cancel_all(tasks, ids) ==
    IF ids = {} THEN tasks
    ELSE LET id == CHOOSE i \in ids : TRUE
         IN  cancel_all(cancel(tasks, id), ids \ {id})

\* CCXTDataClient.__init__; has is the capability table of the exchange client
CCXTDataClient(has) ==
    [is_connected |-> FALSE,
     has |-> has,
     subscribed_instruments |-> {},
     subscribed_order_books |-> EmptyMap,
     subscribed |-> [kind \in Kinds |-> EmptyMap],
     update_instruments_task |-> NoTask,
     tasks |-> <<>>,
     connecting |-> 0,
     disconnecting |-> "none",
     loaded |-> FALSE,
     handed |-> FALSE,
     closed |-> FALSE,
     load_result |-> "none",
     reset_result |-> "none"]

\* faulty variant: a key already subscribed is given a new watch task all the same
subscribe_without_lookup(c, kind, key) ==
    IF kind \notin c.has THEN c
    ELSE IF kind = "bars" /\ price_type(key) # "LAST" THEN c
    ELSE [c EXCEPT !.tasks = create_task(@, kind, key),
                   !.subscribed[kind] = [k \in DOMAIN @ \cup {key} |->
                                            IF k = key THEN Len(c.tasks) + 1 ELSE @[k]]]

\* subscribe_quote_ticks, subscribe_trade_ticks, subscribe_bars
subscribe(c, kind, key) ==
    IF kind \notin c.has THEN c
    ELSE IF kind = "bars" /\ price_type(key) # "LAST" THEN c
    ELSE IF key \in DOMAIN c.subscribed[kind] THEN c
    ELSE [c EXCEPT !.tasks = create_task(@, kind, key),
                   !.subscribed[kind] = [k \in DOMAIN @ \cup {key} |->
                                            IF k = key THEN Len(c.tasks) + 1 ELSE @[k]]]

\* unsubscribe_quote_ticks, unsubscribe_trade_ticks, unsubscribe_bars
unsubscribe(c, kind, key) ==
    IF key \notin DOMAIN c.subscribed[kind] THEN c
    ELSE [c EXCEPT !.tasks = cancel(@, c.subscribed[kind][key]),
                   !.subscribed[kind] = [k \in DOMAIN @ \ {key} |-> @[k]]]

\* connect(): the instruments update is scheduled and _connect is handed to the loop
connect(c) ==
    [c EXCEPT !.tasks = create_task(@, "update_instruments", ""),
              !.update_instruments_task = Len(c.tasks) + 1,
              !.connecting = @ + 1]

\* faulty variant: the client is marked connected before the outcome of the load is known
connect_loaded_marking_first(c, outcome) ==
    IF outcome = "CCXTError"
    THEN [c EXCEPT !.connecting = @ - 1, !.load_result = outcome, !.is_connected = TRUE]
    ELSE [c EXCEPT !.connecting = @ - 1, !.load_result = outcome, !.loaded = TRUE,
                   !.handed = TRUE, !.is_connected = TRUE]

\* _connect, from the return of `await self._load_instruments()`
connect_loaded(c, outcome) ==
    IF outcome = "CCXTError"
    THEN [c EXCEPT !.connecting = @ - 1, !.load_result = outcome]
    ELSE [c EXCEPT !.connecting = @ - 1, !.load_result = outcome, !.loaded = TRUE,
                   !.handed = TRUE, !.is_connected = TRUE]

\* _disconnect up to `await self._client.close()`: the scheduled update and the
\* trade tick tasks are cancelled
disconnect_cancel(c) ==
    LET trades == {c.subscribed["trade_ticks"][k] : k \in DOMAIN c.subscribed["trade_ticks"]}
        update == IF c.update_instruments_task # NoTask
                  THEN {c.update_instruments_task} ELSE {}
    IN  [c EXCEPT !.tasks = cancel_all(@, update \cup trades),
                  !.disconnecting = "closing"]

\* _disconnect, from the return of `await self._client.close()`
disconnect_closed(c, outcome) ==
    IF outcome = "raised"
    THEN [c EXCEPT !.disconnecting = "none"]
    ELSE [c EXCEPT !.disconnecting = "none", !.closed = TRUE, !.is_connected = FALSE]

\* reset()
reset(c) ==
    IF c.is_connected THEN [c EXCEPT !.reset_result = "refused"]
    ELSE [c EXCEPT !.loaded = FALSE,
                   !.subscribed_instruments = {},
                   !.reset_result =
                       IF /\ DOMAIN c.subscribed_order_books = {}
                          /\ \A kind \in Kinds : DOMAIN c.subscribed[kind] = {}
                       THEN "ok" ELSE "AssertionError"]

\* _run_after_delay(delay, _subscribed_instruments_update(delay)) of task id, once
\* the delay is over: the instruments are loaded, those subscribed are handed to
\* the engine, and the next update is scheduled
subscribed_instruments_update(c, id, outcome) ==
    IF outcome = "CCXTError"
    THEN [c EXCEPT !.tasks[id].status = "done"]
    ELSE [c EXCEPT !.loaded = TRUE,
                   !.handed = @ \/ c.subscribed_instruments # {},
                   !.tasks = create_task([@ EXCEPT ![id].status = "done"],
                                         "update_instruments", ""),
                   !.update_instruments_task = Len(c.tasks) + 1]

\* ---------------------------------------------------------------- CCXTDataClient: state machine
HasTables == {Kinds, Kinds \ {"bars"}}

InitClient ==
    /\ TestIdle /\ LiveIdle
    /\ ctor = NoCtor /\ cmp = NoCmp /\ clock = NoClock /\ api = NoApi /\ dispatch = NoDispatch
    /\ loop = NoLoop /\ feed = NoFeed
    /\ \E has \in HasTables : client = CCXTDataClient(has)

ClientUnchanged == UNCHANGED <<tt_vars, lt_vars, ctor, cmp, clock, api, dispatch, loop, feed>>

Subscribe ==
    /\ Len(client.tasks) < MaxTasks
    /\ \E kind \in Kinds : \E key \in Keys(kind) : client' = subscribe(client, kind, key)
    /\ ClientUnchanged

Unsubscribe ==
    /\ \E kind \in Kinds : \E key \in Keys(kind) : client' = unsubscribe(client, kind, key)
    /\ ClientUnchanged

SubscribeInstrument ==
    /\ \E symbol \in Symbols :
          client' = [client EXCEPT !.subscribed_instruments = @ \cup {symbol}]
    /\ ClientUnchanged

UnsubscribeInstrument ==
    /\ \E symbol \in Symbols :
          client' = [client EXCEPT !.subscribed_instruments = @ \ {symbol}]
    /\ ClientUnchanged

Connect ==
    /\ Len(client.tasks) < MaxTasks
    /\ client' = connect(client)
    /\ ClientUnchanged

ConnectLoaded ==
    /\ client.connecting > 0
    /\ \E outcome \in {"ok", "CCXTError"} : client' = connect_loaded(client, outcome)
    /\ ClientUnchanged

\* disconnect(): _disconnect is handed to the loop
Disconnect ==
    /\ client.disconnecting = "none"
    /\ client' = [client EXCEPT !.disconnecting = "scheduled"]
    /\ ClientUnchanged

DisconnectCancel ==
    /\ client.disconnecting = "scheduled"
    /\ client' = disconnect_cancel(client)
    /\ ClientUnchanged

DisconnectClosed ==
    /\ client.disconnecting = "closing"
    /\ \E outcome \in {"ok", "raised"} : client' = disconnect_closed(client, outcome)
    /\ ClientUnchanged

Reset ==
    /\ client' = reset(client)
    /\ ClientUnchanged

SubscribedInstrumentsUpdate ==
    /\ Len(client.tasks) < MaxTasks
    /\ \E id \in DOMAIN client.tasks :
          /\ client.tasks[id].kind = "update_instruments"
          /\ client.tasks[id].status = "pending"
          /\ \E outcome \in {"ok", "CCXTError"} :
                client' = subscribed_instruments_update(client, id, outcome)
    /\ ClientUnchanged

\* a watch task returns by itself: the provider holds no instrument for its key,
\* or the exchange client raised
WatchTaskEnds ==
    /\ \E id \in DOMAIN client.tasks :
          /\ client.tasks[id].kind \in Kinds
          /\ client.tasks[id].status = "pending"
          /\ client' = [client EXCEPT !.tasks[id].status = "done"]
    /\ ClientUnchanged

NextClient ==
    \/ Subscribe
    \/ Unsubscribe
    \/ SubscribeInstrument
    \/ UnsubscribeInstrument
    \/ Connect
    \/ ConnectLoaded
    \/ Disconnect
    \/ DisconnectCancel
    \/ DisconnectClosed
    \/ Reset
    \/ SubscribedInstrumentsUpdate
    \/ WatchTaskEnds

\* one CCXTDataClient, its callers and the tasks of its event loop
SpecClient == InitClient /\ [][NextClient]_vars

\* ---------------------------------------------------------------- dispatch
\* the list returned by the last TestTimer call, each event wrapped with the
\* timer's callback, joins the handlers waiting to be handled
Queued(events) ==
    [dispatch EXCEPT !.pending = @ \o [i \in DOMAIN events |->
                                          TimeEventHandler(events[i], "on_timer")]]

AdvanceQueued ==
    /\ Advance
    /\ dispatch' = Queued(tt_result')
    /\ UNCHANGED <<lt_vars, ctor, cmp, clock, api, ext_vars>>

PopNextEventQueued ==
    /\ PopNextEvent
    /\ dispatch' = Queued(tt_result')
    /\ UNCHANGED <<lt_vars, ctor, cmp, clock, api, ext_vars>>

\* TimeEventHandler.handle() on the first waiting handler: the callback is
\* called with the event. It returns, or it raises: the exception goes to the
\* caller and the handlers still waiting are dropped.
Handle ==
    /\ dispatch.pending # <<>>
    /\ \E raises \in BOOLEAN :
          dispatch' = [pending |-> IF raises THEN <<>> ELSE Tail(dispatch.pending),
                       called |-> dispatch.called + 1,
                       failed |-> raises]
    /\ UNCHANGED <<tt_vars, lt_vars, ctor, cmp, clock, api, ext_vars>>

InitDispatch == TestInit /\ LiveIdle /\ AuxIdle

NextDispatch ==
    \/ AdvanceQueued
    \/ PopNextEventQueued
    \/ Handle

\* a TestTimer whose returned events are handled later, by callbacks that may fail
SpecDispatch == InitDispatch /\ [][NextDispatch]_vars

\* ---------------------------------------------------------------- comparisons
EventNames == {"timer", "other"}
Callbacks == {"on_timer", "on_other"}
Events == {TimeEvent(n, i, ts) : n \in EventNames, i \in 1..MaxId, ts \in 0..MaxStamp}
Handlers == {TimeEventHandler(e, cb) : e \in Events, cb \in Callbacks}
HandlerOps == {"eq", "ne", "lt", "le", "gt", "ge"}
EventOps == {"eq", "ne"}

HandlerCompare(op, h1, h2) ==
    CASE op = "eq" -> TimeEventHandler_eq(h1, h2)
      [] op = "ne" -> TimeEventHandler_ne(h1, h2)
      [] op = "lt" -> TimeEventHandler_lt(h1, h2)
      [] op = "le" -> TimeEventHandler_le(h1, h2)
      [] op = "gt" -> TimeEventHandler_gt(h1, h2)
      [] op = "ge" -> TimeEventHandler_ge(h1, h2)

EventCompare(op, e1, e2) ==
    CASE op = "eq" -> TimeEvent_eq(e1, e2)
      [] op = "ne" -> TimeEvent_ne(e1, e2)

InitCompare ==
    /\ TestIdle /\ LiveIdle
    /\ ctor = NoCtor
    /\ clock = NoClock
    /\ api = NoApi
    /\ dispatch = NoDispatch
    /\ ExtIdle
    /\ \E h1 \in Handlers, h2 \in Handlers : cmp = [h1 |-> h1, h2 |-> h2, out |-> NoResult]

\* h1 <op> h2 on the two handlers
CompareHandlers ==
    /\ \E op \in HandlerOps :
          cmp' = [cmp EXCEPT !.out = [on |-> "handler", op |-> op,
                                      result |-> HandlerCompare(op, cmp.h1, cmp.h2)]]
    /\ UNCHANGED <<tt_vars, lt_vars, ctor, clock, api, dispatch, ext_vars>>

\* e1 <op> e2 on the two handlers' events
CompareEvents ==
    /\ \E op \in EventOps :
          cmp' = [cmp EXCEPT !.out = [on |-> "event", op |-> op,
                                      result |-> EventCompare(op, cmp.h1.event, cmp.h2.event)]]
    /\ UNCHANGED <<tt_vars, lt_vars, ctor, clock, api, dispatch, ext_vars>>

NextCompare ==
    \/ CompareHandlers
    \/ CompareEvents

\* comparisons of two TimeEventHandlers and of their TimeEvents
SpecCompare == InitCompare /\ [][NextCompare]_vars

\* ---------------------------------------------------------------- clock
ClockNames == <<"timer", "other">>
ClockCallbacks == <<"on_timer", "on_other">>
ClockStopTimes == {NoStop} \cup (0..MaxClock)

\* sorted(handlers): a stable sort that compares with <. x goes before the first
\* handler it is less than.
RECURSIVE insort(_, _)
insort(sorted_handlers, x) ==
    IF sorted_handlers = <<>> THEN <<x>>
    ELSE IF TimeEventHandler_lt(x, Head(sorted_handlers))
         THEN <<x>> \o sorted_handlers
         ELSE <<Head(sorted_handlers)>> \o insort(Tail(sorted_handlers), x)

RECURSIVE sorted(_)
sorted(handlers) ==
    IF handlers = <<>> THEN <<>>
    ELSE insort(sorted(SubSeq(handlers, 1, Len(handlers) - 1)), handlers[Len(handlers)])

\* each event wrapped with its timer's callback
Wrap(events, callback) == [i \in DOMAIN events |-> TimeEventHandler(events[i], callback)]

InitClock ==
    /\ TestIdle /\ LiveIdle
    /\ ctor = NoCtor
    /\ cmp = NoCmp
    /\ api = NoApi
    /\ dispatch = NoDispatch
    /\ ExtIdle
    /\ \E i1 \in Intervals, i2 \in Intervals, s1 \in StartTimes, s2 \in StartTimes,
          e1 \in ClockStopTimes, e2 \in ClockStopTimes :
          /\ Timer_valid(ClockNames[1], i1, s1, e1)
          /\ Timer_valid(ClockNames[2], i2, s2, e2)
          /\ clock = [timers |-> <<[timer |-> Timer_init(ClockNames[1], i1, s1, e1),
                                     factory |-> 0, result |-> <<>>],
                                    [timer |-> Timer_init(ClockNames[2], i2, s2, e2),
                                     factory |-> 0, result |-> <<>>]>>,
                       time |-> 0,
                       out |-> <<>>]

\* every timer is advanced to to_time, each event is wrapped in a
\* TimeEventHandler and the handlers are sorted
AdvanceTime ==
    /\ \E to_time \in 0..MaxClock :
          LET r == [i \in DOMAIN clock.timers |->
                       advance(clock.timers[i].timer, clock.timers[i].factory, to_time)]
              handlers == Wrap(r[1].events, ClockCallbacks[1]) \o Wrap(r[2].events, ClockCallbacks[2])
          IN  clock' = [timers |-> [i \in DOMAIN clock.timers |->
                                       [timer |-> r[i].timer, factory |-> r[i].factory,
                                        result |-> r[i].events]],
                        time |-> to_time,
                        out |-> sorted(handlers)]
    /\ UNCHANGED <<tt_vars, lt_vars, ctor, cmp, api, dispatch, ext_vars>>

NextClock ==
    \/ AdvanceTime

\* two TestTimers advanced together, their events merged
SpecClock == InitClock /\ [][NextClock]_vars

\* ---------------------------------------------------------------- construction
CtorCall(kind, name, interval, start_time, stop_time, now_arg, outcome) ==
    [kind |-> kind, name |-> name, interval |-> interval, start_time |-> start_time,
     stop_time |-> stop_time, now |-> now_arg, outcome |-> outcome]

\* TestTimer(name, callback, interval, start_time, stop_time): the checks, then
\* the fields and a new UUIDFactory; a failed check raises and no object exists.
ConstructTestTimer ==
    /\ ctor = NoCtor
    /\ \E name \in Names, interval \in Intervals, start_time \in StartTimes, stop_time \in StopTimes :
          IF Timer_valid(name, interval, start_time, stop_time)
          THEN /\ tt' = Timer_init(name, interval, start_time, stop_time)
               /\ tt_uuid' = 0
               /\ ctor' = CtorCall("TestTimer", name, interval, start_time, stop_time, 0, "ok")
               /\ UNCHANGED <<tt_result, tt_produced, tt_last, tt_split>>
          ELSE /\ ctor' = CtorCall("TestTimer", name, interval, start_time, stop_time, 0, "rejected")
               /\ UNCHANGED tt_vars
    /\ UNCHANGED <<lt_vars, cmp, clock, api, dispatch, ext_vars>>

\* faulty variant: the wait is started before the arguments are checked
ConstructLiveTimer_arming_first ==
    /\ ctor = NoCtor
    /\ \E name \in Names, interval \in Intervals, start_time \in StartTimes,
          stop_time \in LiveStopTimes, now0 \in InitNows :
          /\ now' = now0
          /\ threads' = <<start_timer(Timer_init(name, interval, start_time, stop_time),
                                       now0, now0, FALSE)>>
          /\ IF Timer_valid(name, interval, start_time, stop_time)
             THEN /\ lt' = Timer_init(name, interval, start_time, stop_time)
                  /\ ctor' = CtorCall("LiveTimer", name, interval, start_time, stop_time, now0, "ok")
             ELSE /\ lt' = lt
                  /\ ctor' = CtorCall("LiveTimer", name, interval, start_time, stop_time, now0, "rejected")
          /\ UNCHANGED <<lt_events, lt_uuid, lt_cancelled, lt_stale, lt_manual>>
    /\ UNCHANGED <<tt_vars, cmp, clock, api, dispatch, ext_vars>>

\* LiveTimer(name, callback, interval, now, start_time, stop_time): the checks,
\* the fields, and only then _start_timer(now).
ConstructLiveTimer ==
    /\ ctor = NoCtor
    /\ \E name \in Names, interval \in Intervals, start_time \in StartTimes,
          stop_time \in LiveStopTimes, now0 \in InitNows :
          IF Timer_valid(name, interval, start_time, stop_time)
          THEN /\ lt' = Timer_init(name, interval, start_time, stop_time)
               /\ now' = now0
               /\ threads' = <<start_timer(Timer_init(name, interval, start_time, stop_time),
                                            now0, now0, FALSE)>>
               /\ ctor' = CtorCall("LiveTimer", name, interval, start_time, stop_time, now0, "ok")
               /\ UNCHANGED <<lt_events, lt_uuid, lt_cancelled, lt_stale, lt_manual>>
          ELSE /\ ctor' = CtorCall("LiveTimer", name, interval, start_time, stop_time, now0, "rejected")
               /\ UNCHANGED lt_vars
    /\ UNCHANGED <<tt_vars, cmp, clock, api, dispatch, ext_vars>>

InitCtor == TestIdle /\ LiveIdle /\ AuxIdle

NextCtor ==
    \/ ConstructTestTimer
    \/ ConstructLiveTimer

\* one constructor call, accepted or rejected
SpecCtor == InitCtor /\ [][NextCtor]_vars

\* a LiveTimer constructor call, then repeat(now) calls as the wall clock moves on,
\* with no thread scheduled yet
NextArm ==
    \/ ConstructLiveTimer
    \/ ctor.outcome = "ok" /\ Tick /\ UNCHANGED <<tt_vars, aux_vars>>
    \/ ctor.outcome = "ok" /\ LiveRepeat /\ UNCHANGED <<tt_vars, aux_vars>>

SpecArm == InitCtor /\ [][NextArm]_vars

\* ---------------------------------------------------------------- TestTimer: properties
FirePoint(t, k) == t.start_time + k * t.interval

\* The fire points start_time + k*interval, k = 1, 2, ..., that are <= bound
RECURSIVE FirePointsUpTo(_, _, _)
FirePointsUpTo(t, k, bound) ==
    IF FirePoint(t, k) <= bound
    THEN <<FirePoint(t, k)>> \o FirePointsUpTo(t, k + 1, bound)
    ELSE <<>>

\* C1: the concatenation of the lists returned so far has the timestamps
\* start_time + k*interval for k = 1, 2, 3, ... in this order: each one interval
\* after the previous one, none skipped and none produced twice.
C1_ConsecutiveFirePoints ==
    \A i \in DOMAIN tt_produced : tt_produced[i].timestamp = FirePoint(tt, i)

\* C1 witness: two advance calls with non-decreasing to_time, both returning
\* events, at least three events in all.
C1_Witness ==
    /\ tt_split
    /\ Len(tt_produced) >= 3
    /\ Len(tt_result) < Len(tt_produced)

\* C2 (as claimed): an advance on a timer with a stop_time returns no event later
\* than stop_time; a first advance to stop_time + interval or later returns exactly
\* the fire points <= stop_time and leaves the timer expired.
C2_NoEventAfterStopTime ==
    (tt_last.op = "advance" /\ tt.stop_time # NoStop) =>
        /\ \A i \in DOMAIN tt_result : tt_result[i].timestamp <= tt.stop_time
        /\ (Len(tt_produced) = Len(tt_result) /\ ~tt_last.was_expired
              /\ tt_last.to_time >= tt.stop_time + tt.interval) =>
                /\ Timestamps(tt_result) = FirePointsUpTo(tt, 1, tt.stop_time)
                /\ tt.expired

\* C3: once expired is true, every advance returns an empty list and leaves
\* next_time and expired unchanged.
C3_ExpiredAdvanceIsEmpty ==
    [][(tt.expired /\ tt_last'.op = "advance") =>
          /\ tt_result' = <<>>
          /\ tt'.next_time = tt.next_time
          /\ tt'.expired]_vars

\* C3 witness: advance was called on an expired timer with a to_time at or past
\* its next fire point, and returned nothing.
C3_Witness ==
    /\ tt_last.op = "advance"
    /\ tt_last.was_expired
    /\ tt_last.to_time >= tt.next_time
    /\ tt_result = <<>>

\* C4 (as claimed): pop_next_event on an expired timer produces no TimeEvent.
C4_ExpiredPopNextEventIsEmpty ==
    (tt_last.op = "pop_next_event" /\ tt_last.was_expired) => tt_result = <<>>

NameAndTime(events) ==
    [i \in DOMAIN events |-> <<events[i].name, events[i].timestamp>>]

\* C5: from the current state and for all T1 <= T2, advance(T1) then advance(T2)
\* ends in the same next_time and expired as advance(T2) alone, and the two
\* returned lists concatenated are the list the single call returns.
C5_AdvanceSplits ==
    \A T1 \in Times, T2 \in Times :
        T1 <= T2 =>
            LET a == advance(tt, tt_uuid, T1)
                b == advance(a.timer, a.factory, T2)
                c == advance(tt, tt_uuid, T2)
            IN  /\ b.timer.next_time = c.timer.next_time
                /\ b.timer.expired = c.timer.expired
                /\ NameAndTime(a.events \o b.events) = NameAndTime(c.events)

\* C5 witness: advance(T1) then advance(T2), T1 <= T2, both returning events,
\* on a timer with a stop_time that the second call reaches.
C5_Witness ==
    /\ tt_split
    /\ tt.stop_time # NoStop
    /\ tt.expired

\* C16: after advance(to_time) has returned on a timer that is not expired,
\* next_time > to_time and every fire point <= to_time has been produced
\* (interval 1s = 2 ticks, no stop_time, advance(T0 + 3.5s = 7 ticks) returns the
\* three events at 2, 4 and 6 ticks).
C16_AdvanceMaterializesAllDue ==
    (tt_last.op = "advance" /\ ~tt.expired) =>
        /\ tt.next_time > tt_last.to_time
        /\ \A k \in 1..(MaxTime + 1) :
              FirePoint(tt, k) <= tt_last.to_time =>
                  /\ k <= Len(tt_produced)
                  /\ tt_produced[k].timestamp = FirePoint(tt, k)
        /\ Len(tt_result) = Len(tt_produced) =>
              Timestamps(tt_result) = FirePointsUpTo(tt, 1, tt_last.to_time)

\* C16 witness: the scenario: interval 2 ticks, start 0, no stop_time, a first
\* advance(7) that returned the events at 2, 4 and 6.
C16_Witness ==
    /\ tt_last.op = "advance"
    /\ tt_last.to_time = 7
    /\ tt.interval = 2 /\ tt.start_time = 0 /\ tt.stop_time = NoStop
    /\ ~tt.expired
    /\ Len(tt_produced) = 3
    /\ Timestamps(tt_result) = <<2, 4, 6>>

\* C17 (as claimed): a TestTimer with a stop_time is expired after any
\* advance(to_time) with to_time >= stop_time.
C17_ExpiredOncePastStopTime ==
    (tt_last.op = "advance" /\ tt.stop_time # NoStop /\ tt_last.to_time >= tt.stop_time) =>
        tt.expired

C26_FreshIds ==
    /\ tt_uuid = Len(tt_produced)
    /\ \A i \in DOMAIN tt_produced : tt_produced[i].id = i
    /\ \A i \in DOMAIN tt_produced, j \in DOMAIN tt_produced :
          i # j => tt_produced[i].id # tt_produced[j].id

\* C26 witness: an advance returned two events or more after earlier calls had
\* already produced events.
C26_Witness ==
    /\ tt_last.op = "advance"
    /\ Len(tt_result) >= 2
    /\ Len(tt_produced) > Len(tt_result)

\* C31: an advance(to_time) with to_time < next_time returns an empty list and
\* changes nothing of the timer: next_time, expired, the id generator and the
\* events produced so far stay as they were, also when to_time is before the
\* time of an earlier advance.
C31_EarlyAdvanceIsNoOp ==
    [][(tt_last'.op = "advance" /\ tt_last'.to_time < tt.next_time) =>
          /\ tt_result' = <<>>
          /\ tt' = tt
          /\ tt_uuid' = tt_uuid
          /\ tt_produced' = tt_produced]_vars

\* C31 witness: on a timer that is not expired, an advance to a time before
\* the last event already produced returned nothing.
C31_Witness ==
    /\ tt_last.op = "advance"
    /\ ~tt.expired
    /\ Len(tt_produced) >= 2
    /\ tt_last.to_time < tt_produced[Len(tt_produced)].timestamp
    /\ tt_result = <<>>

\* ---------------------------------------------------------------- LiveTimer: properties
\* No fire is pending: every thread has ended or waits for a time still to come.
LiveQuiescent ==
    \A i \in DOMAIN threads :
        \/ threads[i].phase = "end"
        \/ threads[i].phase = "wait" /\ ~threads[i].finished /\ threads[i].due > now

\* The TestTimer built with the LiveTimer's parameters and advanced to to_time
TestTimerTwin(to_time) ==
    advance(Timer_init(lt.name, lt.interval, lt.start_time, lt.stop_time), 0, to_time)

\* C7 (as claimed): driven by its callback alone, never cancelled and with no fire
\* pending, the LiveTimer has produced the event timestamps of a TestTimer with the
\* same parameters advanced to the current wall-clock time, however late each fire was.
C7_LiveMatchesTest ==
    (~lt_manual /\ ~lt_cancelled /\ LiveQuiescent) =>
        Timestamps(lt_events) = Timestamps(TestTimerTwin(now).events)

\* C8 (as claimed): with repeat called by the callback only, at most one callback
\* invocation happens after cancel() has returned.
C8_AtMostOneStaleFire ==
    ~lt_manual => lt_stale <= 1

\* C9 (as claimed): after cancel() has returned no repeat arms a new wait, so no
\* thread of the timer was started after the cancel.
C9_CancelledIsAbsorbing ==
    \A i \in DOMAIN threads : ~threads[i].after_cancel

\* C10 (as claimed): after cancel() has returned the LiveTimer's expired flag is true.
C10_CancelSetsExpired ==
    lt_cancelled => lt.expired

\* ---------------------------------------------------------------- either realization: properties
\* C11: cancel() is defined in every state of a TestTimer and of a LiveTimer (a
\* LiveTimer always holds a thread to cancel), and cancelling twice leaves the
\* state that cancelling once leaves: no field moves and no thread is released
\* to call back.
C11_CancelIdempotent ==
    /\ threads = <<>> =>
          TestTimer_cancel(TestTimer_cancel(tt)) = TestTimer_cancel(tt)
    /\ threads # <<>> =>
          /\ Len(threads) >= 1
          /\ LiveTimer_cancel(LiveTimer_cancel(threads)) = LiveTimer_cancel(threads)
          /\ \A i \in DOMAIN threads :
                LiveTimer_cancel(threads)[i].phase = threads[i].phase
    /\ (tt_last.op = "cancel" /\ tt_last.was_expired) =>
          tt.expired /\ tt_result = <<>>

\* C11 witness: cancel() was called on a TestTimer that had already produced
\* events and was already expired.
C11_Witness ==
    /\ tt_last.op = "cancel"
    /\ tt_last.was_expired
    /\ tt_produced # <<>>

\* next_time is a fire point: start_time + k*interval for some k >= 1
FireAligned(t) ==
    \E k \in 1..(t.next_time + 1) : t.next_time = t.start_time + k * t.interval

\* C14: next_time of a timer is always start_time + k*interval for some k >= 1
\* (it is so at the start and after every step), and no step decreases it.
C14_NextTimeAlignedAndMonotone ==
    /\ FireAligned(tt) /\ FireAligned(lt)
    /\ [][/\ FireAligned(tt') /\ FireAligned(lt')
          /\ tt'.next_time >= tt.next_time
          /\ lt'.next_time >= lt.next_time]_vars

\* C14 witness: a LiveTimer has fired twice and the wall clock is already past
\* its next fire point, so that its fires come late.
C14_Witness ==
    /\ Len(lt_events) >= 2
    /\ now > lt.next_time

\* C15: no step takes expired from true back to false, in either realization.
C15_ExpiredMonotone ==
    [][(tt.expired => tt'.expired) /\ (lt.expired => lt'.expired)]_vars

\* C15 witness: pop_next_event ran iterate_next_time on an expired TestTimer,
\* which stayed expired.
C15_Witness ==
    /\ tt_last.op = "pop_next_event"
    /\ tt_last.was_expired
    /\ tt.expired

\* ---------------------------------------------------------------- construction: properties
\* The arguments the constructor must reject
BadArguments(c) ==
    \/ c.name = ""
    \/ c.interval <= 0
    \/ c.stop_time # NoStop /\ c.start_time + c.interval > c.stop_time

C13_FirstFirePoint ==
    ctor.outcome = "ok" =>
        LET t == IF ctor.kind = "TestTimer" THEN tt ELSE lt
        IN  /\ t.next_time = ctor.start_time + ctor.interval
            /\ t.expired = FALSE
            /\ t.start_time = ctor.start_time
            /\ t.interval = ctor.interval

\* C13 witness: a LiveTimer with a stop_time and a start_time after the origin
\* was constructed.
C13_Witness ==
    /\ ctor.outcome = "ok"
    /\ ctor.kind = "LiveTimer"
    /\ ctor.stop_time # NoStop
    /\ ctor.start_time > 0

\* ---------------------------------------------------------------- comparisons: properties
\* The comparison named op, made on two timestamps
OnTimestamps(op, a, b) ==
    CASE op = "eq" -> a = b
      [] op = "ne" -> a # b
      [] op = "lt" -> a < b
      [] op = "le" -> a <= b
      [] op = "gt" -> a > b
      [] op = "ge" -> a >= b

\* C18: each of the six comparisons of two handlers gives what the same
\* comparison gives on their events' timestamps, whatever the names, ids and
\* callbacks; together they are a total preorder: exactly one of <, ==, > holds,
\* <= is < or ==, >= is > or ==, != is not ==, and <= is transitive.
C18_HandlerOrderByTimestamp ==
    LET h1 == cmp.h1
        h2 == cmp.h2
    IN  cmp.out.on = "handler" =>
          /\ cmp.out.result = OnTimestamps(cmp.out.op, h1.event.timestamp, h2.event.timestamp)
          /\ TimeEventHandler_lt(h1, h2) <=> (h1.event.timestamp < h2.event.timestamp)
          /\ Cardinality({op \in {"lt", "eq", "gt"} : HandlerCompare(op, h1, h2)}) = 1
          /\ TimeEventHandler_le(h1, h2) <=> (TimeEventHandler_lt(h1, h2) \/ TimeEventHandler_eq(h1, h2))
          /\ TimeEventHandler_ge(h1, h2) <=> (TimeEventHandler_gt(h1, h2) \/ TimeEventHandler_eq(h1, h2))
          /\ TimeEventHandler_ne(h1, h2) <=> ~TimeEventHandler_eq(h1, h2)
          /\ TimeEventHandler_le(h1, h2) \/ TimeEventHandler_le(h2, h1)
          /\ \A h3 \in Handlers :
                (TimeEventHandler_le(h1, h2) /\ TimeEventHandler_le(h2, h3)) =>
                    TimeEventHandler_le(h1, h3)

\* C18 witness: h1 <= h2 was evaluated to true on two handlers with the same
\* timestamp and different names, ids and callbacks.
C18_Witness ==
    /\ cmp.out.on = "handler"
    /\ cmp.out.op = "le"
    /\ cmp.out.result = TRUE
    /\ cmp.h1.event.timestamp = cmp.h2.event.timestamp
    /\ cmp.h1.event.name # cmp.h2.event.name
    /\ cmp.h1.event.id # cmp.h2.event.id
    /\ cmp.h1.handler # cmp.h2.handler

\* C20: e1 == e2 is true exactly when the names are equal, whatever the ids and
\* timestamps, and e1 != e2 is its negation.
C20_EventEqualityByName ==
    LET e1 == cmp.h1.event
        e2 == cmp.h2.event
    IN  cmp.out.on = "event" =>
          /\ cmp.out.op = "eq" => (cmp.out.result <=> (e1.name = e2.name))
          /\ cmp.out.op = "ne" => (cmp.out.result <=> (e1.name # e2.name))
          /\ TimeEvent_ne(e1, e2) <=> ~TimeEvent_eq(e1, e2)

\* C20 witness: e1 == e2 was evaluated to true on two events with the same name
\* and different ids and timestamps.
C20_Witness ==
    /\ cmp.out.on = "event"
    /\ cmp.out.op = "eq"
    /\ cmp.out.result = TRUE
    /\ cmp.h1.event.id # cmp.h2.event.id
    /\ cmp.h1.event.timestamp # cmp.h2.event.timestamp

\* ---------------------------------------------------------------- clock: properties
EventsOf(handlers) == [i \in DOMAIN handlers |-> handlers[i].event]

\* C19: the merged output has non-decreasing timestamps, holds every event the
\* timers returned, and the events of each timer are in it in the order the
\* timer produced them.
C19_MergedOrder ==
    /\ \A i \in 1..(Len(clock.out) - 1) :
          clock.out[i].event.timestamp <= clock.out[i + 1].event.timestamp
    /\ \A k \in DOMAIN clock.timers :
          EventsOf(SelectSeq(clock.out, LAMBDA h : h.event.name = ClockNames[k]))
              = clock.timers[k].result
    /\ Len(clock.out) = Len(clock.timers[1].result) + Len(clock.timers[2].result)

\* C19 witness: both timers returned events, two of them at the same time, and
\* an event of the second timer is merged before one of the first.
C19_Witness ==
    /\ Len(clock.timers[1].result) >= 2
    /\ Len(clock.timers[2].result) >= 2
    /\ \E i \in DOMAIN clock.out, j \in DOMAIN clock.out :
          /\ i < j
          /\ clock.out[i].event.name = ClockNames[2]
          /\ clock.out[j].event.name = ClockNames[1]
    /\ \E i \in 1..(Len(clock.out) - 1) :
          /\ clock.out[i].event.timestamp = clock.out[i + 1].event.timestamp
          /\ clock.out[i].event.name # clock.out[i + 1].event.name

\* ---------------------------------------------------------------- Timer methods: properties
\* C21: pop_event(id) returns one TimeEvent with the timer's name, the given id
\* and the current next_time, and changes no field of the timer; two calls with
\* no iterate_next_time between them return the same timestamp.
C21_PopEventIsPure ==
    [][(api'.op = "pop_event" /\ api' # api) =>
          /\ api'.out = <<[name |-> tt.name, id |-> api'.arg, timestamp |-> tt.next_time]>>
          /\ tt' = tt
          /\ tt_uuid' = tt_uuid
          /\ api.op = "pop_event" => api'.out[1].timestamp = api.out[1].timestamp]_vars

\* C21 witness: pop_event was called twice in a row, with two ids, on a timer
\* that had already moved past its first fire point.
C21_Witness ==
    /\ api.op = "pop_event"
    /\ api.prev = "pop_event"
    /\ api.arg = 2
    /\ tt.next_time > tt.start_time + tt.interval
    /\ api.out[1].timestamp = tt.next_time

\* C22: iterate_next_time(now) adds exactly interval to next_time; it sets
\* expired when a stop_time is set and now >= stop_time, leaves expired as it
\* was otherwise, and changes no other field.
C22_IterateNextTime ==
    [][(api'.op = "iterate_next_time" /\ api' # api) =>
          /\ tt'.next_time = tt.next_time + tt.interval
          /\ (tt.stop_time # NoStop /\ api'.arg >= tt.stop_time) => tt'.expired
          /\ (tt.stop_time = NoStop \/ api'.arg < tt.stop_time) => (tt'.expired = tt.expired)
          /\ tt' = [tt EXCEPT !.next_time = tt'.next_time, !.expired = tt'.expired]]_vars

\* C22 witness: iterate_next_time(stop_time) was called on a timer that was not
\* expired and whose next_time was still before the stop_time; it is expired now.
C22_Witness ==
    /\ api.op = "iterate_next_time"
    /\ tt.stop_time # NoStop
    /\ api.arg = tt.stop_time
    /\ ~api.was_expired
    /\ tt.expired
    /\ tt.next_time - tt.interval < tt.stop_time

\* ---------------------------------------------------------------- LiveTimer: waits
\* Each wait has called the callback at most once, and not at all before it
\* ended unless it ended by calling it or was cancelled.
OneShot(ths, cancelled) ==
    \A i \in DOMAIN ths :
        /\ ths[i].calls <= 1
        /\ ths[i].phase # "end" => ths[i].calls = 0
        /\ ths[i].phase = "end" => (ths[i].calls = 1 \/ cancelled)

C25_LateArmAccepted ==
    /\ ctor # NoCtor => ((ctor.outcome = "rejected") <=> BadArguments(ctor))
    /\ ctor.outcome = "ok" => Len(threads) >= 1
    /\ \A i \in DOMAIN threads :
          (threads[i].phase = "wait" /\ now >= lt.next_time) => now >= threads[i].due

\* C25 witness: a LiveTimer was constructed with now after its first fire
\* point, and repeat(now) was called later still: both waits are due.
C25_Witness ==
    /\ ctor.outcome = "ok"
    /\ ctor.now > ctor.start_time + ctor.interval
    /\ now > ctor.now
    /\ Len(threads) = 2
    /\ \A i \in DOMAIN threads : threads[i].phase = "wait" /\ now >= threads[i].due

\* ---------------------------------------------------------------- dispatch: properties
\* The timer is past every event still waiting to be handled: next_time is
\* after the event's timestamp, and expired is set if the event is at or after
\* the stop_time.
FullyAdvanced(t, pending) ==
    \A i \in DOMAIN pending :
        /\ pending[i].event.timestamp < t.next_time
        /\ (t.stop_time # NoStop /\ pending[i].event.timestamp >= t.stop_time) => t.expired

\* C27: advance and pop_next_event do not call the callback; when an event is
\* handed out the timer is already advanced past it; and handling an event,
\* whether the callback returns or raises, changes nothing of the timer.
C27_AdvancedBeforeDispatch ==
    /\ FullyAdvanced(tt, dispatch.pending)
    /\ [][/\ FullyAdvanced(tt', dispatch'.pending)
          /\ tt_last' # tt_last => dispatch'.called = dispatch.called
          /\ dispatch'.called # dispatch.called =>
                /\ tt' = tt
                /\ tt_uuid' = tt_uuid
                /\ tt_produced' = tt_produced
          /\ tt'.next_time = tt'.start_time + (Len(tt_produced') + 1) * tt'.interval]_vars

\* C27 witness: a callback raised after an earlier one had returned, events of
\* the same advance were dropped unhandled, and the timer is expired.
C27_Witness ==
    /\ dispatch.failed
    /\ dispatch.called >= 2
    /\ dispatch.pending = <<>>
    /\ Len(tt_produced) > dispatch.called
    /\ tt_last.op = "advance"
    /\ tt.expired

\* ---------------------------------------------------------------- LiveTimer: repeat and cancel
\* The waits that can still call the callback: not ended and not cancelled
Pending(ths) == {i \in DOMAIN ths : ths[i].phase # "end" /\ ~ths[i].finished}

\* The waits that have not elapsed yet
Waiting(ths) == {i \in DOMAIN ths : ths[i].phase = "wait"}

\* C28 (as claimed): no step taken while the LiveTimer is expired arms a new
\* wait, and an expired LiveTimer produces no further event.
C28_ExpiredNeverRearmed ==
    [][lt.expired =>
          /\ Cardinality(Waiting(threads')) <= Cardinality(Waiting(threads))
          /\ lt_events' = lt_events]_vars

\* C29 (as claimed): at most one wait of the LiveTimer is un-elapsed and
\* un-cancelled at any time, and once cancel() has returned no wait armed before
\* it is still able to call the callback.
C29_SingleWaitAndCancelStopsAll ==
    /\ Cardinality({i \in Waiting(threads) : ~threads[i].finished}) <= 1
    /\ lt_cancelled =>
          \A i \in Pending(threads) : threads[i].after_cancel

\* C30: a rejected LiveTimer constructor call has started no thread, so nothing
\* can call back for it; an accepted one has started exactly one.
C30_RejectedStartsNoWait ==
    ctor.kind = "LiveTimer" =>
        /\ ctor.outcome = "rejected" => (threads = <<>> /\ lt_events = <<>>)
        /\ ctor.outcome = "ok" => Len(threads) = 1

\* C30 witness: a LiveTimer constructor call whose wait would have been due at
\* once (now at or after start_time + interval) was rejected for its stop_time.
C30_Witness ==
    /\ ctor.kind = "LiveTimer"
    /\ ctor.outcome = "rejected"
    /\ ctor.name # "" /\ ctor.interval > 0
    /\ ctor.now >= ctor.start_time + ctor.interval
    /\ threads = <<>>

\* ---------------------------------------------------------------- the loop of advance: properties
\* C32: every call of advance returns, and the turns its loop has made never
\* exceed (to_time - next_time)/interval + 1, next_time being the one found at
\* the call: the k-th turn is made only if next_time + (k - 1)*interval <= to_time.
C32_AdvanceTerminates ==
    /\ [](loop.turns >= 1 =>
             loop.next0 + (loop.turns - 1) * loop.timer.interval <= loop.to_time)
    /\ [](loop.turns <= MaxTime)
    /\ (loop.pc = "test") ~> (loop.pc = "done")

\* C32 witness: a call on a timer with no stop_time has returned after three
\* turns or more, as many as the bound allows.
C32_Witness ==
    /\ loop.pc = "done"
    /\ loop.timer.stop_time = NoStop
    /\ ~loop.timer.expired
    /\ loop.turns >= 3
    /\ loop.turns = (loop.to_time - loop.next0) \div loop.timer.interval + 1

\* ---------------------------------------------------------------- CCXTDataClient streams: properties
BestBid(tick) == <<tick.bid, tick.bid_size>>
BestAsk(tick) == <<tick.ask, tick.ask_size>>

C38_BarOnlyOnNewTimestamp ==
    LET b == feed.bars IN
    (b # <<>> /\ b.got # NoBar) =>
        /\ b.turns = 1 => (b.out = NoBar /\ b.last_timestamp = b.got[1])
        /\ b.turns > 1 => ((b.out # NoBar) <=> (b.got[1] # b.seen))
        /\ b.out # NoBar => (b.out = b.got /\ b.last_timestamp = b.out[1])
        /\ (b.out # NoBar /\ b.prev # NoBar) => b.out[1] # b.prev[1]

\* C38 witness: a bar was emitted, then a bar with the same timestamp and
\* another price was received and not emitted.
C38_Witness ==
    LET b == feed.bars IN
    /\ b # <<>>
    /\ b.prev # NoBar
    /\ b.out = NoBar
    /\ b.got # NoBar
    /\ b.got[1] = b.prev[1]
    /\ b.got[2] # b.prev[2]

\* C39 (as claimed): a taker trade keeps the reported side and a maker trade
\* gets the opposite side.
C39_TradeSideFromLiquidity ==
    LET t == feed.trades IN
    (t # <<>> /\ t.side # "") =>
        /\ (t.liquidity_side = "taker" /\ t.order_side = "buy") => t.side = OrderSide_BUY
        /\ (t.liquidity_side = "taker" /\ t.order_side = "sell") => t.side = OrderSide_SELL
        /\ (t.liquidity_side = "maker" /\ t.order_side = "buy") => t.side = OrderSide_SELL
        /\ (t.liquidity_side = "maker" /\ t.order_side = "sell") => t.side = OrderSide_BUY

\* ---------------------------------------------------------------- CCXTDataClient: properties
\* the ids of the tasks watching key for kind that are still running
WatchTasks(c, kind, key) ==
    {id \in DOMAIN c.tasks :
        /\ c.tasks[id].kind = kind
        /\ c.tasks[id].key = key
        /\ c.tasks[id].status = "pending"}

\* the watch tasks of c are exactly those of its subscription maps
OneTaskPerKey(c) ==
    \A kind \in Kinds : \A key \in Keys(kind) :
        /\ key \in DOMAIN c.subscribed[kind] =>
              /\ c.subscribed[kind][key] \in DOMAIN c.tasks
              /\ c.tasks[c.subscribed[kind][key]].kind = kind
              /\ c.tasks[c.subscribed[kind][key]].key = key
              /\ WatchTasks(c, kind, key) \subseteq {c.subscribed[kind][key]}
        /\ key \notin DOMAIN c.subscribed[kind] => WatchTasks(c, kind, key) = {}

\* C33: every subscribed key maps to one task of its own and no other task
\* watches it, a key that is not subscribed is watched by no task; a call that
\* subscribes a subscribed key or unsubscribes a key that is not subscribed
\* changes nothing, and a call that unsubscribes a subscribed key removes it from
\* the map and cancels its task, which no longer runs.
C33_OneTaskPerSubscription ==
    [][/\ OneTaskPerKey(client')
       /\ \A kind \in Kinds : \A key \in Keys(kind) :
             /\ key \in DOMAIN client.subscribed[kind] =>
                   /\ subscribe(client, kind, key) = client
                   /\ unsubscribe(client, kind, key).tasks[client.subscribed[kind][key]].status
                         # "pending"
                   /\ key \notin DOMAIN unsubscribe(client, kind, key).subscribed[kind]
             /\ key \notin DOMAIN client.subscribed[kind] =>
                   unsubscribe(client, kind, key) = client]_vars

\* C33 witness: a key was subscribed, unsubscribed and subscribed again; its
\* first task is cancelled and the map holds the second.
C33_Witness ==
    \E kind \in Kinds : \E key \in Keys(kind) :
        /\ key \in DOMAIN client.subscribed[kind]
        /\ client.subscribed[kind][key] = 2
        /\ client.tasks[1] = [kind |-> kind, key |-> key, status |-> "cancelled"]
        /\ client.tasks[2] = [kind |-> kind, key |-> key, status |-> "pending"]

\* C34 (as claimed): when _disconnect completes, no task of the client is
\* left pending.
C34_DisconnectLeavesNoTask ==
    [][(client.disconnecting = "closing" /\ client'.disconnecting = "none") =>
          \A id \in DOMAIN client'.tasks : client'.tasks[id].status # "pending"]_vars

\* C35 (as claimed): reset() on a client that is not connected finds every
\* subscription map empty, and reset() on a connected client changes nothing.
C35_ResetAssertionsHold ==
    [][/\ client'.reset_result # "AssertionError"
       /\ client.is_connected => reset(client) = [client EXCEPT !.reset_result = "refused"]]_vars

\* C36: is_connected becomes true only in the step of _connect in which the
\* instruments are loaded and handed to the engine; a load that raises
\* CCXTError changes neither is_connected nor what the engine was handed;
\* is_connected becomes false only in the last step of _disconnect, with the
\* exchange client closed.
C36_ConnectedOnlyWhenLoaded ==
    [][/\ (~client.is_connected /\ client'.is_connected) =>
             /\ client'.connecting = client.connecting - 1
             /\ client'.load_result = "ok"
             /\ client'.loaded /\ client'.handed
       /\ (client'.connecting = client.connecting - 1 /\ client'.load_result = "CCXTError") =>
             /\ client'.is_connected = client.is_connected
             /\ client'.handed = client.handed
             /\ client'.loaded = client.loaded
       /\ (client.is_connected /\ ~client'.is_connected) =>
             /\ client.disconnecting = "closing"
             /\ client'.disconnecting = "none"
             /\ client'.closed]_vars

\* C36 witness: connect() was called, the load raised CCXTError, and the client
\* is not connected with nothing handed to the engine.
C36_Witness ==
    /\ client.update_instruments_task # NoTask
    /\ client.connecting = 0
    /\ client.load_result = "CCXTError"
    /\ ~client.is_connected
    /\ ~client.handed

====
